---- MODULE Spec2Model ----
(***************************************************************************)
(* PolyTracker (src/main.py): the wallet tracker's reconciliation engine.  *)
(*                                                                         *)
(* The program is one asyncio event loop.  Code between two awaits runs    *)
(* atomically; every action below is one such stretch of code: it starts   *)
(* where a coroutine is resumed and ends at its next network await (or at  *)
(* its return / raise).  The sqlite calls are synchronous and never yield. *)
(***************************************************************************)
EXTENDS Integers, Sequences, FiniteSets, TLC

VARIABLES
    wallets,          \* table wallets: rows [address, name], in rowid order
    positions,        \* table positions: address -> rows, in rowid order
    pending_deletes,  \* the global dict: <<address, asset_id>> -> count, 0 = no key
    tasks,            \* the process_wallet coroutines created by check_wallets
    env,              \* the upstream API's repertoire, fixed along a behaviour
    last,             \* what the last step did: operation, outcome, event sent
    absent_run,       \* history: consecutive fetched cycles with the id absent
    add_held,         \* history: ids a wallet held when it was added
    persisted,        \* history: ids the wallet's last reconciliation wrote
    fetch_log,        \* history: sizes of the wallet's last two fetched cycles
    undelivered       \* history: the event whose send_message raised last

vars == <<wallets, positions, pending_deletes, tasks, env, last, absent_run, add_held,
          persisted, fetch_log, undelivered>>

----------------------------------------------------------------------------
(* Bounds of the model *)

MaxPositions == 2      \* longest position list the upstream API serves
MaxPending == 3        \* cap of a pending_deletes counter
MaxTasks == 3          \* coroutines alive at once
MaxTrades == 1         \* longest trades / activity list the API serves

(* Program constants *)

limit == 2             \* page size of fetch_positions, scaled down from 500
CLOSE_AFTER == 3       \* absences before a position is reported closed
DEAD_ZONE == 1         \* size changes up to 1.0 share are not reported
ALLOWED_USER_ID == 1   \* the operator's chat id

----------------------------------------------------------------------------
(* Values *)

Malformed == "zz"      \* an /add operand that is no 0x-prefixed hex string
Addresses == {"0xA1", "0xB2", Malformed}
Names == {"Alice"}
Users == {ALLOWED_USER_ID, 2}
Assets == {"a", "b"}
Sizes == {0, 1, 3}
AvgPrices == {20}
NoAddress == "-"
NoAsset == ""          \* an entry whose 'asset' is empty: it is skipped
BadNumber == -1        \* a size that float() rejects
NoTrade == -1          \* no SELL fill found
Tasks == 1..MaxTasks

Keys == Addresses \X Assets

Min(x, y) == IF x < y THEN x ELSE y

Range(s) == {s[k] : k \in DOMAIN s}

(* A raw position of the API, and the lists it may serve. *)
Entry(a, s, p) == [asset |-> a, size |-> s, avgPrice |-> p, conditionId |-> "c1"]

Distinct(L) == \A j, k \in DOMAIN L : j # k => L[j].asset # L[k].asset

ListsOver(E) ==
    {L \in UNION {[1..n -> E] : n \in 0..MaxPositions} : Distinct(L)}

EntriesOf(A, S) == {Entry(a, s, p) : a \in A, s \in S, p \in AvgPrices}

EntriesAt(A, S, P) == {Entry(a, s, p) : a \in A, s \in S, p \in P}

FetchIds(L) == {L[k].asset : k \in DOMAIN L} \ {NoAsset}

----------------------------------------------------------------------------
(* DATABASE MANAGER *)

DB == [wallets |-> wallets, positions |-> positions]

get_tracked_wallets(db) == db.wallets

get_wallet_positions(db, address) == db.positions[address]

KnownIds(known) == {known[k].asset_id : k \in DOMAIN known}

KnownRow(known, asset_id) ==
    known[CHOOSE k \in DOMAIN known : known[k].asset_id = asset_id]

Without(rows, asset_id) ==
    LET Keep(r) == r.asset_id # asset_id IN SelectSeq(rows, Keep)

upsert_position_Lost(db, address, asset_id, data) == db

upsert_position(db, address, asset_id, data) ==
    [db EXCEPT !.positions[address] =
        Append(Without(@, asset_id),
               [asset_id |-> asset_id, size |-> data.size,
                avgPrice |-> data.avgPrice, conditionId |-> data.conditionId])]

delete_position(db, address, asset_id) ==
    [db EXCEPT !.positions[address] = Without(@, asset_id)]

add_wallet_db(db, address, name) ==
    LET Other(r) == r.address # address IN
    [db EXCEPT !.wallets =
        Append(SelectSeq(@, Other), [address |-> address, name |-> name])]

remove_wallet_db(db, address) ==
    LET Other(r) == r.address # address IN
    [db EXCEPT !.wallets = SelectSeq(@, Other),
               !.positions[address] = <<>>]

TrackedAddresses == {wallets[k].address : k \in DOMAIN wallets}

----------------------------------------------------------------------------
(* The upstream API.  env.universe names the lists the positions endpoint  *)
(* may serve for a wallet; with env.fixed_on it serves env.fixed only.     *)

Universe(tag, address) ==
    CASE tag = "solo" ->
            ListsOver(EntriesOf(Assets, Sizes \cup {BadNumber})
                        \cup {Entry(NoAsset, 1, 20)})
      [] tag = "plain" -> ListsOver(EntriesOf(Assets, Sizes))
      [] tag = "duo" ->
            IF address = "0xA1"
            THEN ListsOver(EntriesOf({"a"}, {1, BadNumber}))
            ELSE ListsOver(EntriesOf({"a"}, {1, 3}))
      [] tag = "cmd" -> ListsOver(EntriesOf({"a"}, {1, 3}))
      [] tag = "paged" ->
            {[k \in 1..n |-> Entry(IF k % 2 = 1 THEN "a" ELSE "b", k, 20)]
                : n \in 0..(2 * limit + 1)}
      [] tag = "priced" -> ListsOver(EntriesAt(Assets, {1, 3}, {0, 5, 20}))
      [] tag = "drift" ->
            ListsOver(EntriesOf({"a"}, {1, BadNumber})
                        \cup EntriesOf({"b"}, {1, 2, 3}))
      [] OTHER -> {<<>>}

Serve(address) ==
    IF env.fixed_on THEN {env.fixed} ELSE Universe(env.universe, address)

TradePrices == {30}

TradeLists ==
    UNION {[1..n -> [asset : Assets, side : {"BUY", "SELL"}, price : TradePrices]]
             : n \in 0..MaxTrades}

ActivityLists ==
    UNION {[1..n -> [type : {"REDEEM", "TRADE"}, conditionId : {"c1", "c2"}]]
             : n \in 0..MaxTrades}

Page_Overlapping(L, offset) ==
    SubSeq(L, IF offset = 0 THEN 1 ELSE offset, Min(Len(L), offset + limit))

(* One page of the positions endpoint: the slice [offset, offset + limit). *)
Page(L, offset) == SubSeq(L, offset + 1, Min(Len(L), offset + limit))

----------------------------------------------------------------------------
(* PROCESS SINGLE WALLET: the pure parts *)

(* What fetch_recent_activity returned to the coroutine. *)
NoFeed == [trades |-> <<>>, activity |-> <<>>]

IdleTask ==
    [pc |-> "idle", address |-> NoAddress, client |-> "open",
     known |-> <<>>, remote |-> <<>>, cur |-> <<>>, offset |-> 0, i |-> 0,
     trade |-> NoTrade, exit |-> "", held |-> {}, wrote |-> {}, feed |-> NoFeed]

(* A quotient the code computes in floating point, kept exact. *)
Frac(n, d) == [num |-> n, den |-> d]

(* The figures a message prints next to the sizes. *)
NoFigures ==
    [old_avg |-> 0, new_avg |-> 0, value |-> 0, has_pnl |-> FALSE,
     price |-> Frac(0, 1), percent |-> Frac(0, 1)]

NoEvent ==
    [kind |-> "None", address |-> NoAddress, asset_id |-> NoAsset,
     old_size |-> 0, new_size |-> 0, trade_price |-> NoTrade, exit_type |-> "",
     figures |-> NoFigures]

(* The awaits that go through the round's httpx client. *)
ClientAwait == {"fetch", "category", "trades", "closed_activity"}

(* A request that was in flight when the client was closed has resolved.   *)
Resolved(tk) == [tk EXCEPT !.client = IF @ = "inflight" THEN "closed" ELSE @]

(* A request issued on a closed client raises at once. *)
CanSucceed(tk) == tk.client # "closed"

delete_key(address, asset_id) == <<address, asset_id>>

ClearPending(pd, key) == [pd EXCEPT ![key] = 0]

BumpPending(pd, key) == [pd EXCEPT ![key] = @ + 1]

ReachedThreshold_Early(count) == count >= CLOSE_AFTER - 1

ReachedThreshold(count) == count >= CLOSE_AFTER

IsNew(known, asset_id) == asset_id \notin KnownIds(known)

IsIncreased_Inclusive(new_size, old_size) == new_size >= old_size + DEAD_ZONE

IsIncreased(new_size, old_size) == new_size > old_size + DEAD_ZONE

IsDecreased(new_size, old_size) == new_size < old_size - DEAD_ZONE

Classify(known, pos) ==
    IF IsNew(known, pos.asset) THEN "New"
    ELSE IF IsIncreased(pos.size, KnownRow(known, pos.asset).size) THEN "Increased"
    ELSE IF IsDecreased(pos.size, KnownRow(known, pos.asset).size) THEN "Decreased"
    ELSE "None"

new_data_block(pos) ==
    [size |-> pos.size, avgPrice |-> pos.avgPrice, conditionId |-> pos.conditionId]

(* 2. PROCESS CLOSED: the loop over known_positions from its j-th row, up  *)
(* to the next await (a closure to report) or to the end of the coroutine. *)
RECURSIVE RunClosed(_, _, _)
RunClosed(tk, pd, j) ==
    IF j > Len(tk.known)
    THEN [status |-> "returned", task |-> IdleTask, pd |-> pd]
    ELSE LET asset_id == tk.known[j].asset_id
             key == delete_key(tk.address, asset_id)
         IN  IF asset_id \in FetchIds(tk.cur)
             THEN RunClosed(tk, pd, j + 1)
             ELSE LET pd1 == BumpPending(pd, key)
                  IN  IF ReachedThreshold(pd1[key])
                      THEN [status |-> "suspended",
                            task |-> [tk EXCEPT !.pc = "closed_activity", !.i = j,
                                                !.trade = NoTrade, !.exit = "",
                                                !.feed = NoFeed],
                            pd |-> pd1]
                      ELSE RunClosed(tk, pd1, j + 1)

(* 1. PROCESS ACTIVE: the loop over current_positions from its i-th entry, *)
(* up to the await of get_event_category, a raise, or the closed loop.     *)
RECURSIVE RunActive(_, _, _)
RunActive(tk, pd, i) ==
    IF i > Len(tk.cur)
    THEN RunClosed(tk, pd, 1)
    ELSE LET pos == tk.cur[i]
             pd1 == ClearPending(pd, delete_key(tk.address, pos.asset))
         IN  IF pos.asset = NoAsset
             THEN RunActive(tk, pd, i + 1)
             ELSE IF pos.size = BadNumber
             THEN [status |-> "raised", task |-> IdleTask, pd |-> pd1]
             ELSE [status |-> "suspended",
                   task |-> [tk EXCEPT !.pc = "category", !.i = i,
                                       !.trade = NoTrade, !.exit = "",
                                       !.feed = NoFeed],
                   pd |-> pd1]

(* The first SELL fill of the asset in the trades list, NoTrade if none. *)
FirstSell(trades, asset_id) ==
    LET hits == {k \in DOMAIN trades :
                    trades[k].asset = asset_id /\ trades[k].side = "SELL"}
    IN  IF hits = {} THEN NoTrade
        ELSE trades[CHOOSE k \in hits : \A m \in hits : k <= m].price

HasRedeem(activity, condition) ==
    \E k \in DOMAIN activity :
        activity[k].type = "REDEEM" /\ activity[k].conditionId = condition

----------------------------------------------------------------------------
(* History variables, kept only under the specifications that read them.   *)

(* absent_run: per (wallet, id), the number of consecutive successfully    *)
(* fetched cycles in which the id was in the snapshot and not in the fetch.*)
RunAfterFetch(address, known, cur) ==
    IF "runs" \notin env.observe THEN absent_run
    ELSE [k \in Keys |->
            IF k[1] # address THEN absent_run[k]
            ELSE IF k[2] \in KnownIds(known) /\ k[2] \notin FetchIds(cur)
                 THEN Min(absent_run[k] + 1, CLOSE_AFTER)
                 ELSE 0]

(* fetch_log: per (wallet, id), the size of the id in the wallet's last    *)
(* successfully fetched cycle (now) and in the one before it (before);     *)
(* NoSize when the id was not in that fetch.                               *)
NoSize == -2

NoneFetched == [now |-> NoSize, before |-> NoSize]

SizeIn(cur, asset_id) ==
    IF asset_id \in FetchIds(cur)
    THEN cur[CHOOSE k \in DOMAIN cur : cur[k].asset = asset_id].size
    ELSE NoSize

FetchedAfter(address, cur) ==
    IF "drift" \notin env.observe THEN fetch_log
    ELSE [k \in Keys |->
            IF k[1] # address THEN fetch_log[k]
            ELSE [now |-> SizeIn(cur, k[2]), before |-> fetch_log[k].now]]

(* A cycle whose message about the id was not delivered is no baseline    *)
(* for the id.                                                             *)
FetchedUndelivered(tk) ==
    IF "drift" \in env.observe /\ tk.pc = "notify"
    THEN [fetch_log EXCEPT ![<<tk.address, tk.cur[tk.i].asset>>].now = NoSize]
    ELSE fetch_log

(* undelivered: the event whose send_message raised last, with the list   *)
(* its cycle had fetched; forgotten when a send_message for the id returns *)
(* or the wallet's next fetch brings other data.                           *)
NoneUndelivered == [address |-> NoAddress, asset_id |-> NoAsset, kind |-> "",
                    cur |-> <<>>]

Undelivered(tk) ==
    IF "retry" \notin env.observe THEN undelivered
    ELSE IF tk.pc = "notify"
    THEN [address |-> tk.address, asset_id |-> tk.cur[tk.i].asset,
          kind |-> Classify(tk.known, tk.cur[tk.i]), cur |-> tk.cur]
    ELSE [address |-> tk.address, asset_id |-> tk.known[tk.i].asset_id,
          kind |-> "Closed", cur |-> tk.cur]

Delivered(address, asset_id) ==
    IF undelivered.address = address /\ undelivered.asset_id = asset_id
    THEN NoneUndelivered ELSE undelivered

Refetched(address, cur) ==
    IF undelivered.address = address /\ undelivered.cur # cur
    THEN NoneUndelivered ELSE undelivered

(* persisted: per wallet, how many of its reconciliations have ended (up   *)
(* to 2) and the ids whose rows the last of them wrote.                    *)
NonePersisted == [n |-> 0, ids |-> {}]

(* feed: the lists the last fetch_recent_activity of a coroutine returned. *)
Fed(trades, activity) ==
    IF "feed" \in env.observe THEN [trades |-> trades, activity |-> activity]
    ELSE NoFeed

Wrote(tk, asset_id) ==
    IF "same" \in env.observe THEN [tk EXCEPT !.wrote = @ \cup {asset_id}] ELSE tk

PersistedAfter(tk, status) ==
    IF "same" \in env.observe /\ status # "suspended"
    THEN [persisted EXCEPT ![tk.address] =
            [n |-> Min(@.n + 1, 2), ids |-> tk.wrote]]
    ELSE persisted

----------------------------------------------------------------------------
(* Steps of a process_wallet coroutine *)

Step(op, address, outcome, status, ev) ==
    [op |-> op, address |-> address, outcome |-> outcome, status |-> status, ev |-> ev]

(* asyncio.gather without return_exceptions: the first exception of a task *)
(* ends check_wallets, whose "async with" closes the shared client; the    *)
(* sibling tasks are not cancelled and run on with the closed client.      *)
AfterRaise(t) ==
    [u \in Tasks |->
        IF u = t THEN IdleTask
        ELSE IF tasks[t].client = "open" /\ tasks[u].pc # "idle"
                /\ tasks[u].client = "open"
             THEN [tasks[u] EXCEPT !.client =
                        IF tasks[u].pc \in ClientAwait THEN "inflight" ELSE "closed"]
             ELSE tasks[u]]

(* The coroutine of slot t, in state tk, ran up to res: its next await,    *)
(* its return or its raise.                                                *)
Settle(t, tk, res, db, lbl) ==
    /\ \A k \in Keys : res.pd[k] <= MaxPending
    /\ pending_deletes' = res.pd
    /\ wallets' = db.wallets
    /\ positions' = db.positions
    /\ tasks' = IF res.status = "raised" THEN AfterRaise(t)
                ELSE [tasks EXCEPT ![t] = res.task]
    /\ last' = [lbl EXCEPT !.status = res.status]
    /\ persisted' = PersistedAfter(tk, res.status)

RoundRunning == \E t \in Tasks : tasks[t].pc # "idle" /\ tasks[t].client = "open"

FreeSlots == {t \in Tasks : tasks[t].pc = "idle"}

(* check_wallets, up to its await of gather: reads the tracked wallets and *)
(* creates one coroutine per wallet; each runs from the first line of      *)
(* process_wallet to the await inside fetch_positions before anything else *)
(* is resumed.  The job queue starts a round only when the previous run of *)
(* the job has ended.                                                      *)
check_wallets ==
    LET ws == get_tracked_wallets(DB)
        Slot(k) == CHOOSE t \in FreeSlots :
                      Cardinality({u \in FreeSlots : u < t}) = k - 1
        process_wallet(address) ==
            [IdleTask EXCEPT !.pc = "fetch", !.address = address,
                             !.known = get_wallet_positions(DB, address),
                             !.held = add_held[address]]
    IN  /\ ~RoundRunning
        /\ Cardinality(FreeSlots) >= Len(ws)
        /\ tasks' = [t \in Tasks |->
                        IF \E k \in DOMAIN ws : Slot(k) = t
                        THEN process_wallet(ws[CHOOSE k \in DOMAIN ws : Slot(k) = t].address)
                        ELSE tasks[t]]
        /\ last' = Step("check_wallets", NoAddress, "ok", "", NoEvent)
        /\ add_held' = [a \in Addresses |->
                          IF a \in TrackedAddresses THEN {} ELSE add_held[a]]
        /\ UNCHANGED <<wallets, positions, pending_deletes, env, undelivered,
                       absent_run, fetch_log, persisted>>

fetch_positions_failed_AsEmpty(t) ==
    LET tk == tasks[t]
        got == [tk EXCEPT !.remote = <<>>, !.offset = 0]
    IN  /\ tk.pc = "fetch"
        /\ Settle(t, got, RunActive(got, pending_deletes, 1), DB,
                  Step("fetch_positions", tk.address, "error", "", NoEvent))
        /\ UNCHANGED <<env, undelivered, absent_run, fetch_log, add_held>>

(* fetch_positions: a page request failed (transport error, timeout,       *)
(* non-2xx, bad JSON): it returns None and process_wallet returns.         *)
fetch_positions_failed(t) ==
    LET tk == tasks[t] IN
    /\ tk.pc = "fetch"
    /\ tasks' = [tasks EXCEPT ![t] = IdleTask]
    /\ last' = Step("fetch_positions", tk.address,
                    IF CanSucceed(tk) THEN "error" ELSE "client_closed",
                    "returned", NoEvent)
    /\ UNCHANGED <<wallets, positions, pending_deletes, env, undelivered, absent_run,
                   fetch_log, add_held,
                   persisted>>

(* fetch_positions: a page arrived.  After the last page process_wallet    *)
(* runs on into its loops.                                                 *)
fetch_positions(t) ==
    LET tk == tasks[t] IN
    /\ tk.pc = "fetch"
    /\ CanSucceed(tk)
    /\ \E L \in (IF tk.offset = 0 THEN Serve(tk.address) ELSE {tk.remote}) :
         LET data == Page(L, tk.offset)
             all_positions == tk.cur \o data
             more == data # <<>> /\ Len(data) >= limit
             got == [Resolved(tk) EXCEPT !.cur = all_positions, !.remote = <<>>,
                                         !.offset = 0]
         IN  IF more
             THEN /\ tasks' = [tasks EXCEPT ![t] =
                                 [Resolved(tk) EXCEPT !.cur = all_positions,
                                                      !.remote = L,
                                                      !.offset = tk.offset + limit]]
                  /\ last' = Step("fetch_positions", tk.address, "page", "suspended",
                                  NoEvent)
                  /\ UNCHANGED <<wallets, positions, pending_deletes, absent_run,
                                 fetch_log,
                                 undelivered,
                                 persisted>>
             ELSE /\ Settle(t, got, RunActive(got, pending_deletes, 1), DB,
                            Step("fetch_positions", tk.address, "ok", "", NoEvent))
                  /\ absent_run' = RunAfterFetch(tk.address, tk.known, all_positions)
                  /\ fetch_log' = FetchedAfter(tk.address, all_positions)
                  /\ undelivered' = Refetched(tk.address, all_positions)
    /\ UNCHANGED <<env, add_held>>

(* The entry under classification, as the message reports it; kind "None"  *)
(* stands for no message.                                                  *)
(* Logic: Increased.  added_value and estimated_trade_price. *)
IncreasedFigures(new_size, new_avg_price, old_size, old_avg_price) ==
    LET diff == new_size - old_size
        added_value == new_size * new_avg_price - old_size * old_avg_price
    IN  [old_avg |-> old_avg_price, new_avg |-> new_avg_price,
         value |-> added_value, has_pnl |-> FALSE,
         price |-> IF diff > 0
                   THEN (IF added_value < 0 THEN Frac(0, 1) ELSE Frac(added_value, diff))
                   ELSE Frac(new_avg_price, 1),
         percent |-> Frac(0, 1)]

(* Logic: Decreased.  trade_price, sold_value's price and the realized PnL. *)
DecreasedFigures(new_size, new_avg_price, old_size, old_avg_price, sold) ==
    LET diff == old_size - new_size
        found_trade == sold # NoTrade
        trade_price == IF found_trade THEN sold ELSE new_avg_price
    IN  [old_avg |-> old_avg_price, new_avg |-> new_avg_price,
         value |-> IF found_trade /\ old_avg_price > 0
                   THEN (trade_price - old_avg_price) * diff ELSE 0,
         has_pnl |-> found_trade /\ old_avg_price > 0,
         price |-> Frac(trade_price, 1),
         percent |-> IF found_trade /\ old_avg_price > 0
                     THEN Frac((trade_price - old_avg_price) * 100, old_avg_price)
                     ELSE Frac(0, 1)]

(* 2. PROCESS CLOSED: the closed PnL of the row at the resolved exit price. *)
ClosedFigures(old_data, trade_price) ==
    LET old_avg == old_data.avgPrice
        size_closed == old_data.size
    IN  [old_avg |-> old_avg, new_avg |-> 0,
         value |-> IF old_avg > 0 THEN (trade_price - old_avg) * size_closed ELSE 0,
         has_pnl |-> old_avg > 0,
         price |-> Frac(trade_price, 1),
         percent |-> IF old_avg > 0
                     THEN (IF trade_price = 0 THEN Frac(-100, 1)
                           ELSE Frac((trade_price - old_avg) * 100, old_avg))
                     ELSE Frac(0, 1)]

Event(kind, tk) ==
    LET pos == tk.cur[tk.i]
        old_size == IF pos.asset \in KnownIds(tk.known)
                    THEN KnownRow(tk.known, pos.asset).size ELSE 0
        old_avg_price == IF pos.asset \in KnownIds(tk.known)
                         THEN KnownRow(tk.known, pos.asset).avgPrice ELSE 0
    IN  [kind |-> kind, address |-> tk.address, asset_id |-> pos.asset,
         old_size |-> old_size,
         new_size |-> pos.size, trade_price |-> tk.trade, exit_type |-> "",
         figures |->
            IF kind = "Increased"
            THEN IncreasedFigures(pos.size, pos.avgPrice, old_size, old_avg_price)
            ELSE IF kind = "Decreased"
            THEN DecreasedFigures(pos.size, pos.avgPrice, old_size, old_avg_price,
                                  tk.trade)
            ELSE [NoFigures EXCEPT !.old_avg = old_avg_price, !.new_avg = pos.avgPrice]]

(* get_event_category returned (its result only decorates the message):    *)
(* the entry is classified against known_positions.  Within the dead zone  *)
(* the row is refreshed at once and the loop goes on.                      *)
get_event_category(t) ==
    LET tk == Resolved(tasks[t])
        pos == tk.cur[tk.i]
        kind == Classify(tk.known, pos)
    IN  /\ tk.pc = "category"
        /\ IF kind \in {"New", "Increased"}
           THEN /\ tasks' = [tasks EXCEPT ![t] = [tk EXCEPT !.pc = "notify"]]
                /\ last' = Step("get_event_category", tk.address, kind, "suspended",
                                NoEvent)
                /\ UNCHANGED <<wallets, positions, pending_deletes, persisted>>
           ELSE IF kind = "Decreased"
           THEN /\ tasks' = [tasks EXCEPT ![t] = [tk EXCEPT !.pc = "trades"]]
                /\ last' = Step("get_event_category", tk.address, kind, "suspended",
                                NoEvent)
                /\ UNCHANGED <<wallets, positions, pending_deletes, persisted>>
           ELSE Settle(t, Wrote(tk, pos.asset),
                       RunActive(Wrote(tk, pos.asset), pending_deletes, tk.i + 1),
                       upsert_position(DB, tk.address, pos.asset, new_data_block(pos)),
                       Step("get_event_category", tk.address, kind, "",
                            Event("None", tk)))
        /\ UNCHANGED <<env, undelivered, absent_run, fetch_log, add_held>>

(* Logic: Decreased.  fetch_recent_activity returned; on a failed request  *)
(* the trades list is empty.                                               *)
fetch_recent_activity_sold(t) ==
    LET tk == Resolved(tasks[t]) IN
    /\ tk.pc = "trades"
    /\ \E trades \in (IF CanSucceed(tasks[t]) THEN TradeLists ELSE {<<>>}) :
         /\ tasks' = [tasks EXCEPT ![t] =
                        [tk EXCEPT !.pc = "notify",
                                   !.trade = FirstSell(trades, tk.cur[tk.i].asset),
                                   !.feed = Fed(trades, <<>>)]]
         /\ last' = Step("fetch_recent_activity", tk.address,
                         IF CanSucceed(tasks[t]) THEN "ok" ELSE "client_closed",
                         "suspended", NoEvent)
    /\ UNCHANGED <<wallets, positions, pending_deletes, env, undelivered, absent_run,
                   fetch_log, add_held,
                   persisted>>

(* send_message returned for a New / Increased / Decreased entry: the      *)
(* snapshot row is written and the loop goes on.                           *)
send_message(t) ==
    LET tk == tasks[t]
        pos == tk.cur[tk.i]
        ev == Event(Classify(tk.known, pos), tk)
    IN  /\ tk.pc = "notify"
        /\ Settle(t, Wrote(tk, pos.asset),
                  RunActive(Wrote(tk, pos.asset), pending_deletes, tk.i + 1),
                  upsert_position(DB, tk.address, pos.asset, new_data_block(pos)),
                  Step("send_message", tk.address, "ok", "", ev))
        /\ undelivered' = Delivered(tk.address, pos.asset)
        /\ UNCHANGED <<env, absent_run, fetch_log, add_held>>

(* send_message raised: nothing catches it, process_wallet ends with it.   *)
send_message_failed(t) ==
    LET tk == tasks[t] IN
    /\ tk.pc \in {"notify", "closed_notify"}
    /\ tasks' = AfterRaise(t)
    /\ last' = Step("send_message", tk.address, "error", "raised", NoEvent)
    /\ persisted' = PersistedAfter(tk, "raised")
    /\ fetch_log' = FetchedUndelivered(tk)
    /\ undelivered' = Undelivered(tk)
    /\ UNCHANGED <<wallets, positions, pending_deletes, env, absent_run, add_held>>

fetch_recent_activity_closed_RedeemFirst(t) ==
    LET tk == Resolved(tasks[t])
        old_data == tk.known[tk.i]
    IN  /\ tk.pc = "closed_activity"
        /\ \E trades \in (IF CanSucceed(tasks[t]) THEN TradeLists ELSE {<<>>}),
              activity \in (IF CanSucceed(tasks[t]) THEN ActivityLists ELSE {<<>>}) :
             LET sold == FirstSell(trades, old_data.asset_id)
                 won == HasRedeem(activity, old_data.conditionId)
             IN
             /\ tasks' = [tasks EXCEPT ![t] =
                    [tk EXCEPT
                       !.pc = "closed_notify",
                       !.feed = Fed(trades, activity),
                       !.trade = IF won THEN 1 ELSE IF sold # NoTrade THEN sold ELSE 0,
                       !.exit = IF won THEN "Redeemed (Won)"
                                ELSE IF sold # NoTrade THEN "Sold All"
                                ELSE "Expired (Lost)"]]
             /\ last' = Step("fetch_recent_activity", tk.address,
                             IF CanSucceed(tasks[t]) THEN "ok" ELSE "client_closed",
                             "suspended", NoEvent)
        /\ UNCHANGED <<wallets, positions, pending_deletes, env, undelivered,
                       absent_run, fetch_log, add_held,
                       persisted>>

(* 2. PROCESS CLOSED: fetch_recent_activity returned; the exit is resolved.*)
fetch_recent_activity_closed(t) ==
    LET tk == Resolved(tasks[t])
        old_data == tk.known[tk.i]
    IN  /\ tk.pc = "closed_activity"
        /\ \E trades \in (IF CanSucceed(tasks[t]) THEN TradeLists ELSE {<<>>}),
              activity \in (IF CanSucceed(tasks[t]) THEN ActivityLists ELSE {<<>>}) :
             LET sold == FirstSell(trades, old_data.asset_id) IN
             /\ tasks' = [tasks EXCEPT ![t] =
                    [tk EXCEPT
                       !.pc = "closed_notify",
                       !.feed = Fed(trades, activity),
                       !.trade = IF sold # NoTrade THEN sold
                                 ELSE IF HasRedeem(activity, old_data.conditionId)
                                 THEN 1 ELSE 0,
                       !.exit = IF sold # NoTrade THEN "Sold All"
                                ELSE IF HasRedeem(activity, old_data.conditionId)
                                THEN "Redeemed (Won)" ELSE "Expired (Lost)"]]
             /\ last' = Step("fetch_recent_activity", tk.address,
                             IF CanSucceed(tasks[t]) THEN "ok" ELSE "client_closed",
                             "suspended", NoEvent)
        /\ UNCHANGED <<wallets, positions, pending_deletes, env, undelivered,
                       absent_run, fetch_log, add_held,
                       persisted>>

(* send_message returned for a closure: the row and the debounce entry are *)
(* deleted (del raises KeyError when the key is gone) and the loop goes on.*)
send_message_closed(t) ==
    LET tk == tasks[t]
        old_data == tk.known[tk.i]
        key == delete_key(tk.address, old_data.asset_id)
        ev == [kind |-> "Closed", address |-> tk.address,
               asset_id |-> old_data.asset_id, old_size |-> old_data.size,
               new_size |-> 0, trade_price |-> tk.trade, exit_type |-> tk.exit,
               figures |-> ClosedFigures(old_data, tk.trade)]
        res == IF pending_deletes[key] = 0
               THEN [status |-> "raised", task |-> IdleTask, pd |-> pending_deletes]
               ELSE RunClosed(tk, ClearPending(pending_deletes, key), tk.i + 1)
    IN  /\ tk.pc = "closed_notify"
        /\ Settle(t, tk, res, delete_position(DB, tk.address, old_data.asset_id),
                  Step("send_message", tk.address, "ok", "", ev))
        /\ undelivered' = Delivered(tk.address, old_data.asset_id)
        /\ UNCHANGED <<env, absent_run, fetch_log, add_held>>

----------------------------------------------------------------------------
(* COMMANDS.  add_wallet fetches with the blocking requests library, so    *)
(* between its two replies it runs without yielding to the event loop.     *)

Queries == {"0xA1", "0xB2", "LIC", "zed"}

Lower(s) ==
    CASE s = "Alice" -> "alice"
      [] s = "0xA1" -> "0xa1"
      [] s = "0xB2" -> "0xb2"
      [] s = "LIC" -> "lic"
      [] OTHER -> s

(* q in s, for the lower-case strings the model uses. *)
IsSubstring(q, s) ==
    /\ s = "alice"
    /\ q \in {"", "a", "l", "i", "c", "e", "al", "li", "ic", "ce", "ali", "lic",
              "ice", "alic", "lice", "alice"}

(* Sync Pagination Logic for Add *)
RECURSIVE PagedAll(_, _, _)
PagedAll(L, offset, all_positions) ==
    LET data == Page(L, offset) IN
    IF data = <<>> THEN all_positions
    ELSE IF Len(data) < limit THEN all_positions \o data
    ELSE PagedAll(L, offset + limit, all_positions \o data)

(* The seeding loop of add_wallet; float() of a malformed size raises.     *)
RECURSIVE SeedRows(_, _, _, _)
SeedRows(db, address, all_positions, i) ==
    IF i > Len(all_positions) THEN [db |-> db, outcome |-> "ok"]
    ELSE LET pos == all_positions[i] IN
         IF pos.asset = NoAsset THEN SeedRows(db, address, all_positions, i + 1)
         ELSE IF pos.size = BadNumber THEN [db |-> db, outcome |-> "raised"]
         ELSE SeedRows(upsert_position(db, address, pos.asset, new_data_block(pos)),
                       address, all_positions, i + 1)

(* /add <addr> <name>: L is what the wallet holds, fetched says whether    *)
(* the seeding requests went through.                                      *)
add_wallet ==
    \E user \in Users, address \in env.operands, name \in Names, fetched \in BOOLEAN :
      \E L \in Serve(address) :
        /\ UNCHANGED <<pending_deletes, tasks, env, undelivered, absent_run, fetch_log>>
        /\ persisted' = IF user = ALLOWED_USER_ID
                        THEN [persisted EXCEPT ![address] = NonePersisted]
                        ELSE persisted
        /\ LET all_positions == IF fetched THEN PagedAll(L, 0, <<>>) ELSE <<>>
               seeded == SeedRows(add_wallet_db(DB, address, name), address,
                                  all_positions, 1)
           IN  IF user # ALLOWED_USER_ID
               THEN /\ last' = Step("add_wallet", address, "ignored", "", NoEvent)
                    /\ UNCHANGED <<wallets, positions, add_held>>
               ELSE /\ wallets' = seeded.db.wallets
                    /\ positions' = seeded.db.positions
                    /\ last' = Step("add_wallet", address, seeded.outcome, "", NoEvent)
                    /\ add_held' = IF "held" \in env.observe
                                   THEN [add_held EXCEPT ![address] = FetchIds(L)]
                                   ELSE add_held

Matches(query, row) ==
    IsSubstring(query, Lower(row.name)) \/ query = Lower(row.address)

(* /remove <query>: the first matching wallet, in table order, is removed. *)
remove_wallet ==
    \E user \in Users, arg \in Queries :
        /\ UNCHANGED <<pending_deletes, tasks, env, undelivered, absent_run, fetch_log>>
        /\ LET query == Lower(arg)
               ws == get_tracked_wallets(DB)
               hits == {k \in DOMAIN ws : Matches(query, ws[k])}
               first == CHOOSE k \in hits : \A m \in hits : k <= m
           IN  IF user # ALLOWED_USER_ID
               THEN /\ last' = Step("remove_wallet", NoAddress, "ignored", "", NoEvent)
                    /\ UNCHANGED <<wallets, positions, add_held, persisted>>
               ELSE IF hits = {}
               THEN /\ last' = Step("remove_wallet", NoAddress, "not_found", "", NoEvent)
                    /\ UNCHANGED <<wallets, positions, add_held, persisted>>
               ELSE LET db == remove_wallet_db(DB, ws[first].address) IN
                    /\ wallets' = db.wallets
                    /\ positions' = db.positions
                    /\ last' = Step("remove_wallet", ws[first].address, "removed", "",
                                    NoEvent)
                    /\ add_held' = [add_held EXCEPT ![ws[first].address] = {}]
                    /\ persisted' = [persisted EXCEPT ![ws[first].address] = NonePersisted]

----------------------------------------------------------------------------
(* Specifications *)

Init0 ==
    /\ pending_deletes = [k \in Keys |-> 0]
    /\ tasks = [t \in Tasks |-> IdleTask]
    /\ last = Step("init", NoAddress, "", "", NoEvent)
    /\ absent_run = [k \in Keys |-> 0]
    /\ add_held = [a \in Addresses |-> {}]
    /\ persisted = [a \in Addresses |-> NonePersisted]
    /\ fetch_log = [k \in Keys |-> NoneFetched]
    /\ undelivered = NoneUndelivered

(* A fresh install, both wallets in use by the operator. *)
InitTwo ==
    /\ Init0
    /\ wallets = <<>>
    /\ positions = [a \in Addresses |-> <<>>]
    /\ env = [universe |-> "cmd", fixed_on |-> FALSE, fixed |-> <<>>,
              operands |-> Addresses, observe |-> {}]

Reconcile ==
    \E t \in Tasks :
        \/ fetch_positions(t)
        \/ fetch_positions_failed(t)
        \/ get_event_category(t)
        \/ fetch_recent_activity_sold(t)
        \/ send_message(t)
        \/ send_message_failed(t)
        \/ fetch_recent_activity_closed(t)
        \/ send_message_closed(t)

(* One wallet tracked, no command: the reconciliation engine alone. *)
InitSolo ==
    /\ Init0
    /\ wallets = <<[address |-> "0xA1", name |-> "Alice"]>>
    /\ positions = [a \in Addresses |-> <<>>]
    /\ env = [universe |-> "solo", fixed_on |-> FALSE, fixed |-> <<>>,
              operands |-> Addresses, observe |-> {"runs"}]

NextSolo ==
    \/ check_wallets
    \/ Reconcile

SpecSolo == InitSolo /\ [][NextSolo]_vars

(* Two wallets tracked, no command: the wallets of one round. *)
InitDuo ==
    /\ Init0
    /\ wallets = <<[address |-> "0xA1", name |-> "Alice"],
                   [address |-> "0xB2", name |-> "Alice"]>>
    /\ positions = [a \in Addresses |-> <<>>]
    /\ env = [universe |-> "duo", fixed_on |-> FALSE, fixed |-> <<>>,
              operands |-> Addresses, observe |-> {}]

SpecDuo == InitDuo /\ [][NextSolo]_vars

(* One wallet tracked, any snapshot and debounce state, and an upstream    *)
(* API that serves the same list at every fetch.                           *)
RowsOf(L) ==
    [k \in DOMAIN L |->
        [asset_id |-> L[k].asset, size |-> L[k].size, avgPrice |-> L[k].avgPrice,
         conditionId |-> L[k].conditionId]]

InitSame ==
    /\ tasks = [t \in Tasks |-> IdleTask]
    /\ last = Step("init", NoAddress, "", "", NoEvent)
    /\ absent_run = [k \in Keys |-> 0]
    /\ add_held = [a \in Addresses |-> {}]
    /\ persisted = [a \in Addresses |-> NonePersisted]
    /\ fetch_log = [k \in Keys |-> NoneFetched]
    /\ undelivered = NoneUndelivered
    /\ wallets = <<[address |-> "0xA1", name |-> "Alice"]>>
    /\ \E snapshot \in Universe("plain", "0xA1") :
          /\ positions = [a \in Addresses |->
                            IF a = "0xA1" THEN RowsOf(snapshot) ELSE <<>>]
          /\ pending_deletes \in
                {pd \in [Keys -> 0..(CLOSE_AFTER - 1)] :
                    \A k \in Keys :
                        pd[k] > 0 => k[1] = "0xA1" /\ k[2] \in FetchIds(snapshot)}
    /\ \E L \in Universe("plain", "0xA1") :
          env = [universe |-> "plain", fixed_on |-> TRUE, fixed |-> L,
                 operands |-> {}, observe |-> {"same"}]

SpecSame == InitSame /\ [][NextSolo]_vars

Next ==
    \/ check_wallets
    \/ Reconcile
    \/ add_wallet
    \/ remove_wallet

SpecTwo == InitTwo /\ [][Next]_vars

(* A fresh install: empty tables; the operator adds and removes one wallet. *)
Init ==
    /\ Init0
    /\ wallets = <<>>
    /\ positions = [a \in Addresses |-> <<>>]
    /\ env = [universe |-> "cmd", fixed_on |-> FALSE, fixed |-> <<>>,
              operands |-> {"0xA1"}, observe |-> {"runs", "held"}]

Spec == Init /\ [][Next]_vars

(* A fresh install: the operator passes /add an operand that is no address. *)
InitOperand ==
    /\ Init0
    /\ wallets = <<>>
    /\ positions = [a \in Addresses |-> <<>>]
    /\ env = [universe |-> "cmd", fixed_on |-> FALSE, fixed |-> <<>>,
              operands |-> {Malformed}, observe |-> {}]

SpecOperand == InitOperand /\ [][Next]_vars

(* One wallet tracked, its positions fetched at several average prices. *)
InitPriced ==
    /\ Init0
    /\ wallets = <<[address |-> "0xA1", name |-> "Alice"]>>
    /\ positions = [a \in Addresses |-> <<>>]
    /\ env = [universe |-> "priced", fixed_on |-> FALSE, fixed |-> <<>>,
              operands |-> {}, observe |-> {"runs", "feed"}]

SpecPriced == InitPriced /\ [][NextSolo]_vars

(* One wallet tracked, holding up to two full pages and a short one. *)
InitPaged ==
    /\ Init0
    /\ wallets = <<[address |-> "0xA1", name |-> "Alice"]>>
    /\ positions = [a \in Addresses |-> <<>>]
    /\ env = [universe |-> "paged", fixed_on |-> FALSE, fixed |-> <<>>,
              operands |-> {}, observe |-> {}]

SpecPaged == InitPaged /\ [][NextSolo]_vars

(* One wallet tracked, a position of it drifting by one share a cycle. *)
InitDrift ==
    /\ Init0
    /\ wallets = <<[address |-> "0xA1", name |-> "Alice"]>>
    /\ positions = [a \in Addresses |-> <<>>]
    /\ env = [universe |-> "drift", fixed_on |-> FALSE, fixed |-> <<>>,
              operands |-> {}, observe |-> {"drift"}]

SpecDrift == InitDrift /\ [][NextSolo]_vars

(* One wallet tracked, well-formed entries only: the sends may fail. *)
InitRetry ==
    /\ Init0
    /\ wallets = <<[address |-> "0xA1", name |-> "Alice"]>>
    /\ positions = [a \in Addresses |-> <<>>]
    /\ env = [universe |-> "plain", fixed_on |-> FALSE, fixed |-> <<>>,
              operands |-> {}, observe |-> {"retry"}]

SpecRetry == InitRetry /\ [][NextSolo]_vars

----------------------------------------------------------------------------
(* Properties *)

Abs(x) == IF x < 0 THEN -x ELSE x

(* The coroutine of slot t took this step. *)
Acts(t) == tasks[t].pc # "idle" /\ last'.address = tasks[t].address
           /\ tasks'[t] # tasks[t]

(* The entry a coroutine is working on lies in the dead zone of its        *)
(* snapshot row.                                                           *)
InDeadZone(tk) ==
    /\ tk.pc \in {"category", "trades", "notify"}
    /\ tk.cur[tk.i].asset \in KnownIds(tk.known)
    /\ Abs(tk.cur[tk.i].size - KnownRow(tk.known, tk.cur[tk.i].asset).size) <= DEAD_ZONE

(* C1: a Closed event for (wallet, id) is sent only in the 3rd consecutive *)
(* successfully fetched cycle that finds the id in the snapshot and not in *)
(* the fetch, never after 1 or 2 such cycles; commands included.           *)
C1_ClosedOnlyAfterThreeAbsences ==
    last.ev.kind = "Closed" =>
        absent_run[<<last.ev.address, last.ev.asset_id>>] >= CLOSE_AFTER

(* C2: when a reconciliation whose fetch lists an id ends, the id has no   *)
(* debounce entry left: its reappearance cancelled the pending closure.    *)
C2_ReappearanceClearsDebounce ==
    [][\A t \in Tasks :
          (Acts(t) /\ tasks[t].pc # "fetch" /\ tasks'[t].pc = "idle") =>
              \A a \in FetchIds(tasks[t].cur) :
                  pending_deletes'[<<tasks[t].address, a>>] = 0]_vars

(* C3: for a fetched entry whose id is in the snapshot read by the cycle   *)
(* and whose size is within 1.0 of the row's, no message is sent: not for  *)
(* the entry, and no Closed for its id in that cycle.                      *)
C3_DeadZoneSilent ==
    [][\A t \in Tasks :
          /\ (Acts(t) /\ InDeadZone(tasks[t])) =>
                /\ last'.ev.kind = "None"
                /\ tasks'[t].pc \notin {"trades", "notify"} \/ tasks'[t].i # tasks[t].i
          /\ (Acts(t) /\ last'.ev.kind = "Closed") =>
                ~ \E k \in DOMAIN tasks[t].cur :
                      /\ tasks[t].cur[k].asset = last'.ev.asset_id
                      /\ tasks[t].cur[k].size # BadNumber]_vars

C3_Witness ==
    /\ last.op = "get_event_category" /\ last.outcome = "None"
    /\ last.ev.new_size - last.ev.old_size = DEAD_ZONE
    /\ \E k \in DOMAIN positions[last.address] :
          /\ positions[last.address][k].asset_id = last.ev.asset_id
          /\ positions[last.address][k].size = last.ev.new_size

(* C4: in one reconciliation a New event is sent for a fetched position    *)
(* exactly when its id is not in the snapshot the cycle read at its start, *)
(* whatever its size: no New for an id of the snapshot, and the coroutine  *)
(* does not end while a fetched position that is not in the snapshot is    *)
(* still waiting to be classified.                                         *)
C4_NewIffNotInSnapshot ==
    [][\A t \in Tasks :
          LET tk == tasks[t]
              Fresh(k) == /\ tk.cur[k].asset # NoAsset
                          /\ tk.cur[k].size # BadNumber
                          /\ tk.cur[k].asset \notin KnownIds(tk.known)
          IN  /\ (Acts(t) /\ last'.ev.kind = "New") =>
                    last'.ev.asset_id \notin KnownIds(tk.known)
              /\ (Acts(t) /\ tk.pc = "category") =>
                    (Fresh(tk.i) <=> last'.outcome = "New")
              /\ (Acts(t) /\ tk.pc \in {"category", "trades", "notify"}
                    /\ tasks'[t].pc = "idle") =>
                    \A k \in DOMAIN tk.cur : k > tk.i => ~Fresh(k)]_vars

C6_FailedFetchChangesNothing ==
    [][\A t \in Tasks :
          (tasks[t].pc = "fetch" /\ tasks'[t] # tasks[t]
             /\ last'.outcome \in {"error", "client_closed"}) =>
                /\ tasks'[t] = IdleTask
                /\ last'.ev.kind = "None"
                /\ positions' = positions
                /\ pending_deletes' = pending_deletes]_vars

C6_Witness ==
    /\ last.op = "fetch_positions" /\ last.outcome = "error"
    /\ positions[last.address] # <<>>
    /\ \E k \in Keys : k[1] = last.address /\ pending_deletes[k] > 0
    /\ \A t \in Tasks : tasks[t].pc = "idle"

(* C7: the first reconciliation after /add sends no New event for an id    *)
(* the wallet held when it was added.                                      *)
C7_NoNewForHeldAtAdd ==
    [][\A t \in Tasks :
          (Acts(t) /\ last'.ev.kind = "New") =>
              last'.ev.asset_id \notin tasks[t].held]_vars

(* C8: no request of a wallet's reconciliation fails because a sibling of  *)
(* its round raised.                                                       *)
C8_SiblingFailureDoesNotSpread == last.outcome # "client_closed"

(* C9: after a failed send_message the cycle goes on: the coroutine does   *)
(* not end while fetched entries are unprocessed or snapshot ids absent    *)
(* from the fetch are unvisited.                                           *)
C9_FailedSendDoesNotAbort ==
    [][\A t \in Tasks :
          (Acts(t) /\ tasks[t].pc = "notify" /\ last'.op = "send_message"
             /\ last'.outcome = "error" /\ tasks'[t].pc = "idle") =>
                /\ tasks[t].i = Len(tasks[t].cur)
                /\ KnownIds(tasks[t].known) \subseteq FetchIds(tasks[t].cur)]_vars

(* C10: the store holds no snapshot row for an address that is not tracked *)
(* (from /remove until the next /add).                                     *)
C10_RemovedWalletHasNoRows ==
    \A a \in Addresses : a \notin TrackedAddresses => positions[a] = <<>>

(* C11: /add with a malformed address is rejected: the tracked wallets and *)
(* the snapshot rows are left as they were.                                *)
C11_MalformedAddRejected ==
    [][(last'.op = "add_wallet" /\ last'.address = Malformed) =>
          (wallets' = wallets /\ positions' = positions)]_vars

(* A fetched entry of the coroutine that is well formed, has its id in the *)
(* snapshot read by the cycle, and differs from its row by diff shares.    *)
Grew(tk, k) ==
    /\ tk.cur[k].asset \in KnownIds(tk.known)
    /\ tk.cur[k].size # BadNumber
    /\ tk.cur[k].size > KnownRow(tk.known, tk.cur[k].asset).size + DEAD_ZONE

Shrank(tk, k) ==
    /\ tk.cur[k].asset \in KnownIds(tk.known)
    /\ tk.cur[k].size # BadNumber
    /\ tk.cur[k].size < KnownRow(tk.known, tk.cur[k].asset).size - DEAD_ZONE

(* C12: every fetched position of the snapshot with newSize > oldSize + 1  *)
(* gets one Increased event, with addedValue = newSize * newAvgPrice -     *)
(* oldSize * oldAvgPrice and estimatedTradePrice = addedValue / (newSize - *)
(* oldSize), 0 when that is negative: the entry is classified Increased,   *)
(* the message carries these figures, and the coroutine does not end while *)
(* such an entry is still waiting to be classified.                        *)
C12_IncreasedFigures ==
    [][\A t \in Tasks :
          LET tk == tasks[t]
              ev == last'.ev
              added == ev.new_size * ev.figures.new_avg
                          - ev.old_size * ev.figures.old_avg
          IN  /\ (Acts(t) /\ tk.pc = "category" /\ Grew(tk, tk.i)) =>
                    last'.outcome = "Increased"
              /\ (Acts(t) /\ ev.kind = "Increased") =>
                    /\ ev.figures.value = added
                    /\ added >= 0 =>
                          ev.figures.price.num * (ev.new_size - ev.old_size)
                             = added * ev.figures.price.den
                    /\ added < 0 => ev.figures.price.num = 0
                    /\ ev.figures.price.den > 0
              /\ (Acts(t) /\ tk.pc \in {"category", "trades", "notify"}
                    /\ tasks'[t].pc = "idle") =>
                    \A k \in DOMAIN tk.cur : k > tk.i => ~Grew(tk, k)]_vars

(* C13: the Closed message resolves its exit in a fixed order: a SELL fill *)
(* of the asset gives "Sold All" at the fill's price; else a REDEEM record *)
(* of the row's condition id gives "Redeemed (Won)" at 1.00; else "Expired *)
(* (Lost)" at 0.  With oldAvgPrice > 0 the PnL is (exitPrice - oldAvgPrice)*)
(* * oldSize, and the percent is -100 whenever the exit price is 0.        *)
C13_ClosedExitResolution ==
    [][\A t \in Tasks :
          LET tk == tasks[t]
              ev == last'.ev
              old_data == tk.known[tk.i]
              trades == tk.feed.trades
              activity == tk.feed.activity
              sells == {k \in DOMAIN trades :
                          trades[k].asset = ev.asset_id /\ trades[k].side = "SELL"}
              redeems == {k \in DOMAIN activity :
                            /\ activity[k].type = "REDEEM"
                            /\ activity[k].conditionId = old_data.conditionId}
          IN  (Acts(t) /\ ev.kind = "Closed") =>
                /\ ev.asset_id = old_data.asset_id
                /\ sells # {} =>
                      /\ ev.exit_type = "Sold All"
                      /\ \E k \in sells : ev.trade_price = trades[k].price
                /\ (sells = {} /\ redeems # {}) =>
                      (ev.exit_type = "Redeemed (Won)" /\ ev.trade_price = 1)
                /\ (sells = {} /\ redeems = {}) =>
                      (ev.exit_type = "Expired (Lost)" /\ ev.trade_price = 0)
                /\ ev.figures.price = Frac(ev.trade_price, 1)
                /\ old_data.avgPrice > 0 =>
                      /\ ev.figures.has_pnl
                      /\ ev.figures.value
                            = (ev.trade_price - old_data.avgPrice) * old_data.size
                      /\ ev.trade_price = 0 => ev.figures.percent = Frac(-100, 1)]_vars

C13_Witness ==
    /\ last.ev.kind = "Closed" /\ last.ev.exit_type = "Expired (Lost)"
    /\ last.ev.trade_price = 0 /\ last.ev.old_size = 3
    /\ last.ev.figures.old_avg = 5 /\ last.ev.figures.has_pnl
    /\ last.ev.figures.value = -15
    /\ last.ev.figures.percent = Frac(-100, 1)

(* C14: fetch_positions requests offsets 0, limit, 2 * limit, ..., goes on *)
(* after every full page, stops after the first short or empty page, and   *)
(* returns the pages concatenated in order, nothing dropped or duplicated. *)
C14_PaginationConcatenates ==
    [][\A t \in Tasks :
          LET tk == tasks[t]
              nx == tasks'[t]
          IN  (tk.pc = "fetch" /\ nx # tk /\ last'.op = "fetch_positions"
                 /\ last'.outcome \in {"page", "ok"}) =>
                /\ tk.offset = Len(tk.cur) /\ tk.offset % limit = 0
                /\ last'.outcome = "page" =>
                      /\ nx.pc = "fetch" /\ nx.offset = tk.offset + limit
                      /\ nx.cur = SubSeq(nx.remote, 1, nx.offset)
                      /\ Len(nx.remote) >= nx.offset
                      /\ tk.offset > 0 => nx.remote = tk.remote
                /\ (last'.outcome = "ok" /\ nx.pc # "idle") =>
                      /\ nx.pc # "fetch"
                      /\ Len(nx.cur) - tk.offset < limit
                      /\ tk.offset > 0 => nx.cur = tk.remote
                      /\ tk.offset = 0 => nx.cur \in Serve(tk.address)]_vars

C14_Witness ==
    /\ last.op = "fetch_positions" /\ last.outcome = "ok"
    /\ \E t \in Tasks : /\ tasks[t].pc = "category"
                         /\ Len(tasks[t].cur) = 2 * limit + 1

(* C15: a fetched entry whose size cannot be parsed is skipped on its own: *)
(* the coroutine that comes upon one does not end while another fetched    *)
(* entry is still to be classified, and not before the closure pass has    *)
(* counted the snapshot ids absent from the fetch.                         *)
C15_MalformedEntrySkipped ==
    [][\A t \in Tasks :
          LET tk == tasks[t]
              list == IF tk.pc = "fetch" THEN tk.remote ELSE tk.cur
              from == IF tk.pc = "fetch" THEN 0 ELSE tk.i
              Good(k) == list[k].asset # NoAsset /\ list[k].size # BadNumber
              Bad(k) == list[k].asset # NoAsset /\ list[k].size = BadNumber
          IN  (/\ Acts(t)
               /\ tk.pc \in {"fetch", "category", "notify"}
               /\ tk.pc = "fetch" => tk.offset > 0
               /\ last'.outcome \notin {"error", "client_closed", "page"}
               /\ \E k \in DOMAIN list : k > from /\ Bad(k)
               /\ tasks'[t].pc = "idle") =>
                /\ \A k \in DOMAIN list : k > from => ~Good(k)
                /\ \A a \in KnownIds(tk.known) \ FetchIds(list) :
                      pending_deletes'[<<tk.address, a>>]
                         = pending_deletes[<<tk.address, a>>] + 1]_vars

(* C16: two reconciliations of one wallet are never alive at once.         *)
C16_NoOverlapPerWallet ==
    \A t, u \in Tasks :
        (t # u /\ tasks[t].pc # "idle" /\ tasks[u].pc # "idle") =>
            tasks[t].address # tasks[u].address

(* The snapshot rows of one id of a wallet. *)
RowsFor(rows, asset_id) ==
    LET Same(r) == r.asset_id = asset_id IN SelectSeq(rows, Same)

(* C17: when a cycle counts a snapshot id as absent and the count is still *)
(* below 3, the count went up by exactly 1, the id's snapshot row is left  *)
(* as it was, and no message is sent or prepared for it.                   *)
C17_BelowThresholdFrame ==
    [][\A t \in Tasks : \A a \in Assets :
          LET tk == tasks[t]
              key == <<tk.address, a>>
          IN  (Acts(t) /\ pending_deletes'[key] > pending_deletes[key]) =>
                /\ pending_deletes'[key] = pending_deletes[key] + 1
                /\ a \in KnownIds(tk.known)
                /\ pending_deletes'[key] < CLOSE_AFTER =>
                      /\ RowsFor(positions'[tk.address], a)
                            = RowsFor(positions[tk.address], a)
                      /\ last'.ev.asset_id # a
                      /\ ~ (/\ tasks'[t].pc \in {"closed_activity", "closed_notify"}
                            /\ tasks'[t].known[tasks'[t].i].asset_id = a)]_vars

C17_Witness ==
    /\ last.op = "fetch_positions" /\ last.outcome = "ok" /\ last.status = "returned"
    /\ pending_deletes[<<"0xA1", "a">>] = CLOSE_AFTER - 1
    /\ RowsFor(positions["0xA1"], "a") # <<>>

(* C18: a cycle that is the 3rd consecutive successfully fetched cycle to  *)
(* find a snapshot id absent from the fetch reports it closed: when the    *)
(* cycle ends, the id's row and its debounce entry are gone.  (A cycle     *)
(* whose own Closed message could not be sent is left aside.)              *)
C18_ClosedAtThirdAbsence ==
    [][\A t \in Tasks : \A a \in Assets :
          LET tk == tasks[t]
              key == <<tk.address, a>>
              own_send_failed ==
                  /\ tk.pc = "closed_notify" /\ last'.outcome = "error"
                  /\ tk.known[tk.i].asset_id = a
          IN  (/\ Acts(t) /\ tasks'[t].pc = "idle"
               /\ last'.outcome # "client_closed"
               /\ ~own_send_failed
               /\ absent_run'[key] >= CLOSE_AFTER) =>
                /\ RowsFor(positions'[tk.address], a) = <<>>
                /\ pending_deletes'[key] = 0]_vars

(* C19: every fetched position of the snapshot with newSize < oldSize - 1  *)
(* gets one Decreased event: the entry is classified Decreased and the     *)
(* coroutine does not end while such an entry is waiting; with a SELL fill *)
(* of the asset among the fetched trades the first one supplies tradePrice *)
(* and the message carries pnl = (tradePrice - oldAvgPrice) * (oldSize -   *)
(* newSize); with none, tradePrice is newAvgPrice and there is no PnL.     *)
C19_DecreasedFigures ==
    [][\A t \in Tasks :
          LET tk == tasks[t]
              ev == last'.ev
              trades == tk.feed.trades
              sells == {k \in DOMAIN trades :
                          trades[k].asset = ev.asset_id /\ trades[k].side = "SELL"}
              first == CHOOSE k \in sells : \A m \in sells : k <= m
          IN  /\ (Acts(t) /\ tk.pc = "category" /\ Shrank(tk, tk.i)) =>
                    last'.outcome = "Decreased"
              /\ (Acts(t) /\ ev.kind = "Decreased" /\ sells # {}) =>
                    /\ ev.figures.price = Frac(trades[first].price, 1)
                    /\ ev.figures.has_pnl
                    /\ ev.figures.value
                          = (trades[first].price - ev.figures.old_avg)
                               * (ev.old_size - ev.new_size)
              /\ (Acts(t) /\ ev.kind = "Decreased" /\ sells = {}) =>
                    /\ ev.figures.price = Frac(ev.figures.new_avg, 1)
                    /\ ~ev.figures.has_pnl
              /\ (Acts(t) /\ tk.pc \in {"category", "trades", "notify"}
                    /\ tasks'[t].pc = "idle") =>
                    \A k \in DOMAIN tk.cur : k > tk.i => ~Shrank(tk, k)]_vars

(* C20: the baseline of the dead zone is the size fetched in the preceding *)
(* successfully fetched cycle: no event is sent for a position whose       *)
(* fetched size differs by at most 1 from the size that cycle fetched for  *)
(* it, so a position drifting by at most 1 a cycle stays silent.           *)
C20_BaselineIsPrecedingFetch ==
    [][\A t \in Tasks :
          LET ev == last'.ev
              before == fetch_log[<<ev.address, ev.asset_id>>].before
          IN  (Acts(t) /\ ev.kind \in {"New", "Increased", "Decreased"}
                 /\ before \notin {NoSize, BadNumber}) =>
                  Abs(ev.new_size - before) > DEAD_ZONE]_vars

====
